---- MODULE Spec2Model ----
(***************************************************************************)
(* Model of the debug overlay of src/src/debug_vis.rs: the keyed debug-text *)
(* registry (DebugTexts), the process-wide submission queue (DEBUG_QUEUE),  *)
(* the DebugLevel visibility controller and the frame-time history.         *)
(*                                                                         *)
(* One frame is one run of the Update schedule (DebugVisPlugin::build):     *)
(* every system runs once, in any order the schedule leaves open, and the   *)
(* deferred Commands of the frame are applied when the schedule ends.       *)
(***************************************************************************)
EXTENDS Integers, Sequences, FiniteSets, TLC

VARIABLES
    texts,          \* Res<DebugTexts>: frame, next_line, line_lookup, entries
    level,          \* Res<DebugLevel>
    level_changed,  \* level.is_changed() as apply_debug_visibility sees it
    world,          \* the scene graph: live entity id -> its components
    next_entity,    \* the next entity id Commands::spawn reserves
    commands,       \* deferred Commands of this frame, in issue order
    DEBUG_QUEUE,    \* the OnceLock<Mutex<Vec<DebugRequest>>>
    producers,      \* per producer thread: position in enqueue_request
    ran,            \* systems of the Update schedule that ran this frame
    panicked,       \* the frame-loop thread panicked (host process is gone)
    calls,          \* number of enqueue_request calls made so far
    appended,       \* history: requests pushed onto the queue, in push order
    applied,        \* history: requests drain_debug_queue applied, in order
    write_age,      \* history: per key, frames since its last write (capped)
    history,        \* Res<FrameTimeHistory>
    recorded,       \* history: every sample pushed into the window, in order
    diagnostics,    \* DiagnosticsStore: the smoothed frame time, <<>> if none
    gizmos,         \* lines drawn this frame by the axis gizmo and bar chart
    shadow          \* a second run on the same samples: its level and history

vars == <<texts, level, level_changed, world, next_entity, commands,
          DEBUG_QUEUE, producers, ran, panicked, calls, appended, applied,
          write_age, history, recorded, diagnostics, gizmos, shadow>>

overlay_vars == <<texts, level, level_changed, world, next_entity, commands,
                  DEBUG_QUEUE, producers, ran, panicked, calls, appended,
                  applied, write_age>>

history_vars == <<history, recorded, diagnostics, gizmos, shadow>>

\* What the systems of the frame-time displays leave alone.
writer_vars == <<texts, level_changed, next_entity, commands, DEBUG_QUEUE,
                 producers, panicked, calls, appended, applied, write_age>>

(***************************************************************************)
(* Bounds of the model.                                                    *)
(***************************************************************************)
\* Frames (runs of cleanup_stale_debug_texts) explored.
MaxFrames == 4
\* Frames a run of SpecWrap starts before the frame counter wraps.
WrapLead == 2
\* enqueue_request calls explored, over all producer threads.
MaxRequests == 3
\* Width of the frame counter in the model (u64 in the source, line 63).
FrameBits == 16
\* Samples recorded into the frame-time history.
MaxSamples == 5
\* The window capacity: 300 in the source (line 15), scaled down here.
FRAME_DELTA_WINDOW == 3
\* f64 scaled down: FloatPrecision significand bits (53 in f64), and values
\* held as integer multiples of 2^-FloatScale, the smallest subnormal.
FloatPrecision == 10
FloatScale == 15

Keys == {"hp", "pos"}
Producers == {"t1", "t2"}
NoHolder == "none"

\* A partial function as a TLA+ function over the keys it holds.
Put(f, k, v) == [x \in DOMAIN f \cup {k} |-> IF x = k THEN v ELSE f[x]]

Remove(f, ks) == [x \in DOMAIN f \ ks |-> f[x]]

EmptyMap == [x \in {} |-> x]

\* A finite set of integers as an ascending sequence.
RECURSIVE Ascending(_)
Ascending(S) ==
    IF S = {} THEN <<>>
    ELSE LET m == CHOOSE x \in S : \A y \in S : x <= y
         IN  <<m>> \o Ascending(S \ {m})


(***************************************************************************)
(* Program constants.                                                      *)
(***************************************************************************)
LINE_HEIGHT == 20

Levels == {"Hidden", "FpsOnly", "Full"}

\* The frame counter is a u64; FrameBits is its width here.
FrameModulus == 2 ^ FrameBits

\* u64::wrapping_add(1)
wrapping_add(x) == (x + 1) % FrameModulus

(***************************************************************************)
(* Deferred Commands.  Commands::spawn reserves the entity id at once; the  *)
(* entity and its components exist in the world only once the queue is      *)
(* applied.  insert and despawn are deferred in the same way.  Within one    *)
(* frame no two systems issue commands for the same entity, so the order    *)
(* in which the systems' queues are applied does not show; the model keeps  *)
(* one queue in issue order.                                                *)
(***************************************************************************)
SpawnCmd(e, kind, label, text, bottom, vis) ==
    [op |-> "spawn", entity |-> e, kind |-> kind, label |-> label,
     text |-> text, bottom |-> bottom, visibility |-> vis]

InsertTextCmd(e, text) ==
    [op |-> "insert", entity |-> e, kind |-> "", label |-> "",
     text |-> text, bottom |-> 0, visibility |-> ""]

DespawnCmd(e) ==
    [op |-> "despawn", entity |-> e, kind |-> "", label |-> "",
     text |-> "", bottom |-> 0, visibility |-> ""]

ApplyCommand(w, c) ==
    IF c.op = "spawn"
    THEN Put(w, c.entity, [kind |-> c.kind, label |-> c.label, text |-> c.text,
                           bottom |-> c.bottom, visibility |-> c.visibility])
    ELSE IF c.op = "insert"
    THEN IF c.entity \in DOMAIN w
         THEN [w EXCEPT ![c.entity].text = c.text]
         ELSE w
    ELSE Remove(w, {c.entity})

RECURSIVE ApplyCommands(_, _)
ApplyCommands(w, cs) ==
    IF cs = <<>> THEN w
    ELSE ApplyCommands(ApplyCommand(w, Head(cs)), Tail(cs))

(***************************************************************************)
(* The texts of the three fixed lines.                                     *)
(***************************************************************************)
\* format!("FPS: {:.0}", fps) and "FPS: --"
FpsLabel(value) == "FPS: " \o value

\* format!("Frametime avg ({}): {:.2}", FRAME_DELTA_WINDOW, avg), its
\* "max" twin and their placeholders.
ConsistencyLabel(name, value) ==
    "Frametime " \o name \o " (" \o ToString(FRAME_DELTA_WINDOW) \o "): "
       \o value

Placeholder == "--"

(***************************************************************************)
(* Startup: spawn_fps_display, with its commands applied.                   *)
(***************************************************************************)
spawn_fps_display(lvl) ==
    LET visibility == IF lvl = "Hidden" THEN "Hidden" ELSE "Inherited"
        consistency_visibility == IF lvl = "Full" THEN "Inherited" ELSE "Hidden"
    IN  ApplyCommands(<<>>,
          << SpawnCmd(1, "FpsText", "", FpsLabel(Placeholder), 0, visibility),
             SpawnCmd(2, "FrametimeConsistencyText", "",
                      ConsistencyLabel("avg", Placeholder), 0,
                      consistency_visibility),
             SpawnCmd(3, "FrametimeMaxDeltaText", "",
                      ConsistencyLabel("max", Placeholder), 0,
                      consistency_visibility) >>)

(***************************************************************************)
(* The debug-text registry.                                                *)
(***************************************************************************)
\* Faulty variant of MergePersistent: the flag assigned, not or-ed.
MergePersistentAssign(old, persistent) == persistent

\* entry.persistent |= persistent
MergePersistent(old, persistent) == old \/ persistent

\* The update of an existing entry: last_frame and the persistence flag.
TouchEntry(entry, frame, persistent) ==
    [entry EXCEPT !.last_frame = frame,
                  !.persistent = MergePersistent(@, persistent)]

\* Faulty variant of AllocateLine: next_line is not advanced.
AllocateLineNoIncrement(t, key) ==
    IF key \in DOMAIN t.line_lookup THEN t
    ELSE [t EXCEPT !.line_lookup = Put(@, key, t.next_line)]

\* Faulty variant of AllocateLine: the key's earlier slot is not reused.
AllocateLineAlways(t, key) ==
    [t EXCEPT !.next_line = @ + 1,
              !.line_lookup = Put(@, key, t.next_line)]

\* The slot of a key without an entry: its earlier slot, or the next unused
\* one.  Returns the texts with the allocation made.
AllocateLine(t, key) ==
    IF key \in DOMAIN t.line_lookup THEN t
    ELSE [t EXCEPT !.next_line = @ + 1,
                   !.line_lookup = Put(@, key, t.next_line)]

\* Faulty variant of HasEntry: the existing entry is never found.
HasEntryNever(t, key) == FALSE

\* if let Some(entry) = self.texts.entries.get_mut(&key)
HasEntry(t, key) == key \in DOMAIN t.entries

\* DebugTextWriter::write_with_persistence on the writer w = [texts,
\* commands, next_entity], with the DebugLevel the writer system sees.
write_with_persistence(w, lvl, key, message, persistent) ==
    LET frame == w.texts.frame IN
    IF HasEntry(w.texts, key)
    THEN LET entry == w.texts.entries[key] IN
         [w EXCEPT !.commands = Append(@, InsertTextCmd(entry.entity, message)),
                   !.texts.entries[key] = TouchEntry(entry, frame, persistent)]
    ELSE LET t == AllocateLine(w.texts, key)
             line == t.line_lookup[key]
             visibility == IF lvl = "Full" THEN "Inherited" ELSE "Hidden"
             entity == w.next_entity
         IN  [texts |-> [t EXCEPT !.entries = Put(@, key,
                             [entity |-> entity, line |-> line,
                              last_frame |-> frame, persistent |-> persistent])],
              commands |-> Append(w.commands,
                             SpawnCmd(entity, "DebugLabel", key, message,
                                      line * LINE_HEIGHT, visibility)),
              next_entity |-> entity + 1]

\* DebugTextWriter::write
write(w, lvl, key, message) == write_with_persistence(w, lvl, key, message, FALSE)

\* Faulty variants of Stale: the persistence flag ignored; one more frame
\* of tolerance.
StaleIgnoringPersistence(entry, frame) == entry.last_frame + 1 < frame

StaleAfterTwo(entry, frame) ==
    ~entry.persistent /\ entry.last_frame + 2 < frame

\* entry.last_frame + 1 is a plain u64 addition, evaluated for the entries
\* that are not persistent: beyond the largest u64 it panics where overflow
\* checks are compiled in (the dev profile) and wraps where they are not
\* (the release profile).
Overflows(entry) ==
    ~entry.persistent /\ entry.last_frame + 1 >= FrameModulus

\* The staleness test of cleanup_stale_debug_texts:
\* !entry.persistent && entry.last_frame + 1 < frame
\* (the sum as the release profile computes it).
Stale(entry, frame) ==
    ~entry.persistent /\ (entry.last_frame + 1) % FrameModulus < frame


\* Faulty variant of cleanup: the stale keys leave the registry and no
\* despawn is issued.
cleanupNoDespawn(w) ==
    LET frame == wrapping_add(w.texts.frame)
        to_remove == {k \in DOMAIN w.texts.entries :
                         Stale(w.texts.entries[k], frame)}
    IN  [w EXCEPT !.texts.frame = frame,
                  !.texts.entries = Remove(@, to_remove)]

\* cleanup_stale_debug_texts on the writer w = [texts, commands, next_entity]:
\* one despawn per stale entry, then the stale keys leave the registry.
\* (The despawns of one run concern distinct entities; their order among
\* themselves, the HashMap's iteration order, does not show.)
cleanup(w) ==
    LET frame == wrapping_add(w.texts.frame)
        to_remove == {k \in DOMAIN w.texts.entries :
                         Stale(w.texts.entries[k], frame)}
        stale == Ascending({w.texts.entries[k].entity : k \in to_remove})
    IN  [w EXCEPT !.texts.frame = frame,
                  !.texts.entries = Remove(@, to_remove),
                  !.commands = @ \o [i \in 1..Len(stale) |-> DespawnCmd(stale[i])]]

(***************************************************************************)
(* The submission queue.                                                   *)
(***************************************************************************)
\* The calls the producers make: debug_text(key, message) and
\* debug_text_persistent(key, message).
debug_text(key, message) ==
    [key |-> key, message |-> message, persistent |-> FALSE]

debug_text_persistent(key, message) ==
    [key |-> key, message |-> message, persistent |-> TRUE]

Requests == {debug_text("hp", "100"), debug_text("hp", "90"),
             debug_text_persistent("hp", "90"), debug_text("pos", "100")}

NoRequest == [id |-> 0, key |-> "", message |-> "", persistent |-> FALSE]

\* DebugRequest values; id is the call's number, kept to tell requests apart.
Request(id, r) ==
    [id |-> id, key |-> r.key, message |-> r.message, persistent |-> r.persistent]

\* Faulty variant of Push: the request goes to the front.
PushFront(data, req) == <<req>> \o data

\* queue.push(req)
Push(data, req) == Append(data, req)

\* for req in queue.drain(..) { writer.write_with_persistence(..) }
RECURSIVE DrainInto(_, _, _)
DrainInto(w, lvl, reqs) ==
    IF reqs = <<>> THEN w
    ELSE DrainInto(write_with_persistence(w, lvl, Head(reqs).key,
                                          Head(reqs).message,
                                          Head(reqs).persistent),
                   lvl, Tail(reqs))

\* Faulty variant of Drained: only the oldest request is taken.
DrainedFirstOnly(data) == IF data = <<>> THEN <<>> ELSE <<Head(data)>>

\* What queue.drain(..) takes out of the Vec: all of it.
Drained(data) == data

\* The visibility apply_debug_visibility gives to an entity at a level; an
\* entity no query of the system matches keeps the one it has.
TargetVisibility(lvl, entity) ==
    LET fps_vis == IF lvl = "Hidden" THEN "Hidden" ELSE "Inherited"
        consistency_vis == IF lvl = "Full" THEN "Inherited" ELSE "Hidden"
        debug_vis == IF lvl = "Full" THEN "Inherited" ELSE "Hidden"
    IN  IF entity.kind = "FpsText" THEN fps_vis
        ELSE IF entity.kind = "FrametimeConsistencyText" THEN consistency_vis
        ELSE IF entity.kind = "DebugLabel" THEN debug_vis
        ELSE entity.visibility

\* toggle_debug_level's cycle.
NextLevel(lvl) ==
    IF lvl = "Hidden" THEN "FpsOnly"
    ELSE IF lvl = "FpsOnly" THEN "Full"
    ELSE "Hidden"


(***************************************************************************)
(* Frame-time history.  frame_times_ms and sum_seconds are f64: a value is  *)
(* held as the integer n standing for n * 2^-FloatScale, and every           *)
(* operation rounds its exact result to FloatPrecision significant bits,     *)
(* ties to even, as IEEE-754 does.                                          *)
(***************************************************************************)
Abs(x) == IF x < 0 THEN -x ELSE x

\* The least e >= 0 for which a / (den * 2^e) fits the significand.
RECURSIVE RoundExp(_, _, _)
RoundExp(a, den, e) ==
    IF a < (2 ^ FloatPrecision) * den * (2 ^ e) THEN e
    ELSE RoundExp(a, den, e + 1)

\* num / den rounded to the nearest representable value, ties to even.
RoundNearestEven(num, den) ==
    LET a == Abs(num)
        e == RoundExp(a, den, 0)
        unit == den * (2 ^ e)
        q == a \div unit
        r == a % unit
        up == IF 2 * r > unit \/ (2 * r = unit /\ q % 2 = 1) THEN 1 ELSE 0
        m == (q + up) * (2 ^ e)
    IN  IF num < 0 THEN -m ELSE m

\* The f64 of a whole number of milliseconds.
Float(x) == x * (2 ^ FloatScale)

FAdd(a, b) == RoundNearestEven(a + b, 1)

FSub(a, b) == RoundNearestEven(a - b, 1)

\* frame_time_ms / 1000.0
ToSeconds(ms) == RoundNearestEven(ms, 1000)

\* The smoothed frame times the diagnostics feed may report, in ms.
Samples == {Float(16), Float(40), Float(200)}

\* Faulty variant of Evict: the removed sample is not subtracted.
EvictKeepSum(h) ==
    IF Len(h.frame_times_ms) > FRAME_DELTA_WINDOW
    THEN [h EXCEPT !.frame_times_ms = Tail(@)]
    ELSE h

\* The eviction of update_frame_time_history: pop_front and its subtraction.
Evict(h) ==
    IF Len(h.frame_times_ms) > FRAME_DELTA_WINDOW
    THEN [frame_times_ms |-> Tail(h.frame_times_ms),
          sum_seconds |-> FSub(h.sum_seconds,
                               ToSeconds(Head(h.frame_times_ms)))]
    ELSE h

\* update_frame_time_history with a sample present.
record(h, frame_time_ms) ==
    Evict([frame_times_ms |-> Append(h.frame_times_ms, frame_time_ms),
           sum_seconds |-> FAdd(h.sum_seconds, ToSeconds(frame_time_ms))])

\* Faulty variant of update_history: a missing sample recorded as 0 ms.
update_history_or_zero(h, smoothed) ==
    record(h, IF smoothed = <<>> THEN 0 ELSE smoothed[1])

\* update_frame_time_history on the feed's smoothed value: <<>> (None)
\* returns early.
update_history(h, smoothed) ==
    IF smoothed = <<>> THEN h ELSE record(h, smoothed[1])

(***************************************************************************)
(* The numbers of the fixed lines.                                         *)
(***************************************************************************)
\* FPS_AVG_WINDOW_SECONDS = 0.25, in the unit of sum_seconds.
FPS_AVG_WINDOW_SECONDS == (2 ^ FloatScale) \div 4

\* Faulty variant of ReachedBudget: the walk never stops early.
ReachedBudgetNever(window_seconds) == FALSE

\* if window_seconds >= FPS_AVG_WINDOW_SECONDS { break; }
ReachedBudget(window_seconds) == window_seconds >= FPS_AVG_WINDOW_SECONDS

\* The loop of update_fps_display over frame_times_ms.iter().rev(): i is the
\* index of the next sample, acc the window_seconds and frames so far.
RECURSIVE WalkBack(_, _, _)
WalkBack(times, i, acc) ==
    IF i = 0 THEN acc
    ELSE LET next == [window_seconds |->
                         FAdd(acc.window_seconds, ToSeconds(times[i])),
                      frames |-> acc.frames + 1]
         IN  IF ReachedBudget(next.window_seconds) THEN next
             ELSE WalkBack(times, i - 1, next)

\* The unit in which the model holds the rate: 2^-FloatPrecision per second.
FpsUnit == 2 ^ FloatPrecision

\* frames as f64 / window_seconds
Rate(frames, window_seconds) ==
    RoundNearestEven(frames * (2 ^ FloatScale) * FpsUnit, window_seconds)

\* The decimal digits of n, zero-padded to width d.
RECURSIVE Pad(_, _)
Pad(n, d) == IF d = 0 THEN "" ELSE Pad(n \div 10, d - 1) \o ToString(n % 10)

\* format!("{:.d}", x / unit): the exact value rounded to d decimals, ties
\* to even.
FormatFixed(x, unit, d) ==
    LET num == x * (10 ^ d)
        q == num \div unit
        r == num % unit
        up == IF 2 * r > unit \/ (2 * r = unit /\ q % 2 = 1) THEN 1 ELSE 0
        scaled == q + up
    IN  IF d = 0 THEN ToString(scaled)
        ELSE ToString(scaled \div (10 ^ d)) \o "." \o Pad(scaled % (10 ^ d), d)

\* The text update_fps_display leaves in the FPS line, old being its text.
fps_label(lvl, h, old) ==
    IF lvl = "Hidden" THEN old
    ELSE LET w == WalkBack(h.frame_times_ms, Len(h.frame_times_ms),
                           [window_seconds |-> 0, frames |-> 0])
         IN  IF w.window_seconds > 0
             THEN FpsLabel(FormatFixed(Rate(w.frames, w.window_seconds),
                                       FpsUnit, 0))
             ELSE old

\* history.frame_times_ms.iter().copied().fold(0.0, f64::max)
RECURSIVE FoldMax(_)
FoldMax(times) ==
    IF times = <<>> THEN 0
    ELSE LET rest == FoldMax(SubSeq(times, 1, Len(times) - 1))
             last == times[Len(times)]
         IN  IF last > rest THEN last ELSE rest

\* Faulty variant of Average: divided by the window's capacity.
AverageOverCapacity(h) ==
    RoundNearestEven(RoundNearestEven(h.sum_seconds * 1000, 1),
                     FRAME_DELTA_WINDOW)

\* (history.sum_seconds * 1000.0) / history.frame_times_ms.len() as f64
Average(h) ==
    RoundNearestEven(RoundNearestEven(h.sum_seconds * 1000, 1),
                     Len(h.frame_times_ms))

\* The two labels update_frametime_consistency_display computes.
frametime_labels(h) ==
    IF h.frame_times_ms = <<>>
    THEN [avg |-> ConsistencyLabel("avg", Placeholder),
          max |-> ConsistencyLabel("max", Placeholder)]
    ELSE [avg |-> ConsistencyLabel("avg",
                     FormatFixed(Average(h), 2 ^ FloatScale, 2)),
          max |-> ConsistencyLabel("max",
                     FormatFixed(FoldMax(h.frame_times_ms),
                                 2 ^ FloatScale, 2))]

\* Faulty variant of DrawsAt: drawn at every level but Hidden.
DrawsAtUnlessHidden(lvl) == lvl # "Hidden"

\* if *level != DebugLevel::Full { return; } of both draw systems
DrawsAt(lvl) == lvl = "Full"


(***************************************************************************)
(* Initial state: the resources as init_resource makes them (Default), the  *)
(* Startup schedule run, the queue's OnceLock not yet initialised.          *)
(***************************************************************************)
Systems == {"drain_debug_queue", "cleanup_stale_debug_texts",
            "apply_debug_visibility"}

InitAt(frame) ==
    /\ texts = [frame |-> frame, next_line |-> 0, line_lookup |-> EmptyMap,
                entries |-> EmptyMap]
    /\ level = "Full"
    /\ level_changed = TRUE
    /\ world = spawn_fps_display("Full")
    /\ next_entity = 4
    /\ commands = <<>>
    /\ DEBUG_QUEUE = [init |-> FALSE, data |-> <<>>, poisoned |-> FALSE,
                      holder |-> NoHolder]
    /\ producers = [p \in Producers |-> [pc |-> "idle", req |-> NoRequest]]
    /\ ran = {}
    /\ panicked = FALSE
    /\ calls = 0
    /\ appended = <<>>
    /\ applied = <<>>
    /\ write_age = [k \in Keys |-> 3]
    /\ history = [frame_times_ms |-> <<>>, sum_seconds |-> 0]
    /\ recorded = <<>>
    /\ diagnostics = <<>>
    /\ gizmos = [axes |-> 0, bars |-> 0]
    /\ shadow = [level |-> "Full",
                 history |-> [frame_times_ms |-> <<>>, sum_seconds |-> 0]]

Init == InitAt(0)

\* The state of a run in which nothing was written so far and whose frame
\* counter is WrapLead short of wrapping.
InitWrap == InitAt(FrameModulus - WrapLead)

(***************************************************************************)
(* Producer threads: debug_text / debug_text_persistent -> enqueue_request. *)
(***************************************************************************)
\* DEBUG_QUEUE.get_or_init(..).lock(): blocks while the mutex is held; on a
\* poisoned mutex the result is Err and the request is dropped.
enqueue_lock(p) ==
    /\ ~panicked
    /\ producers[p].pc = "idle"
    /\ calls < MaxRequests
    /\ DEBUG_QUEUE.holder = NoHolder
    /\ \E r \in Requests :
          /\ calls' = calls + 1
          /\ IF DEBUG_QUEUE.poisoned
             THEN /\ DEBUG_QUEUE' = [DEBUG_QUEUE EXCEPT !.init = TRUE]
                  /\ UNCHANGED producers
             ELSE /\ DEBUG_QUEUE' = [DEBUG_QUEUE EXCEPT !.init = TRUE,
                                                        !.holder = p]
                  /\ producers' = [producers EXCEPT ![p] =
                        [pc |-> "locked", req |-> Request(calls + 1, r)]]
    /\ UNCHANGED <<texts, level, level_changed, world, next_entity, commands,
                   ran, panicked, appended, applied, write_age>>
    /\ UNCHANGED history_vars

\* queue.push(req), then the guard is dropped.
enqueue_push(p) ==
    /\ ~panicked
    /\ producers[p].pc = "locked"
    /\ DEBUG_QUEUE' = [DEBUG_QUEUE EXCEPT
                          !.data = Push(@, producers[p].req),
                          !.holder = NoHolder]
    /\ appended' = Append(appended, producers[p].req)
    /\ producers' = [producers EXCEPT ![p] = [pc |-> "idle", req |-> NoRequest]]
    /\ UNCHANGED <<texts, level, level_changed, world, next_entity, commands,
                   ran, panicked, calls, applied, write_age>>
    /\ UNCHANGED history_vars

\* The producer panics while it holds the guard (Vec::push on a capacity
\* overflow): the guard's drop poisons the mutex and the thread ends.
enqueue_panic(p) ==
    /\ ~panicked
    /\ producers[p].pc = "locked"
    /\ DEBUG_QUEUE' = [DEBUG_QUEUE EXCEPT !.poisoned = TRUE,
                                          !.holder = NoHolder]
    /\ producers' = [producers EXCEPT ![p] = [pc |-> "dead", req |-> NoRequest]]
    /\ UNCHANGED <<texts, level, level_changed, world, next_entity, commands,
                   ran, panicked, calls, appended, applied, write_age>>
    /\ UNCHANGED history_vars

(***************************************************************************)
(* The systems of the Update schedule.                                     *)
(***************************************************************************)
Runs(system) ==
    /\ ~panicked
    /\ system \notin ran
    /\ ran' = ran \cup {system}

KeysOf(reqs) == {reqs[i].key : i \in 1..Len(reqs)}

drain_debug_queue ==
    /\ Runs("drain_debug_queue")
    /\ IF ~DEBUG_QUEUE.init
       THEN \* DEBUG_QUEUE.get() is None
            UNCHANGED <<texts, commands, next_entity, DEBUG_QUEUE, panicked,
                        applied, write_age>>
       ELSE /\ DEBUG_QUEUE.holder = NoHolder
            /\ IF DEBUG_QUEUE.poisoned
               THEN \* queue.lock().unwrap() on Err(PoisonError)
                    /\ panicked' = TRUE
                    /\ UNCHANGED <<texts, commands, next_entity, DEBUG_QUEUE,
                                   applied, write_age>>
               ELSE LET taken == Drained(DEBUG_QUEUE.data)
                        w == DrainInto([texts |-> texts, commands |-> commands,
                                        next_entity |-> next_entity],
                                       level, taken)
                    IN  /\ texts' = w.texts
                        /\ commands' = w.commands
                        /\ next_entity' = w.next_entity
                        /\ DEBUG_QUEUE' = [DEBUG_QUEUE EXCEPT !.data =
                              SubSeq(@, Len(taken) + 1, Len(@))]
                        /\ applied' = applied \o taken
                        /\ write_age' = [k \in Keys |->
                              IF k \in KeysOf(taken) THEN 0 ELSE write_age[k]]
                        /\ UNCHANGED panicked
    /\ UNCHANGED <<level, level_changed, world, producers, calls, appended>>
    /\ UNCHANGED history_vars

\* The counter values at which a frame may still start: the first MaxFrames
\* of a run, and the last WrapLead before the counter wraps.
FrameAllowed(frame) ==
    frame < MaxFrames \/ frame >= FrameModulus - WrapLead

\* Where an entry's last_frame + 1 overflows the system panics or goes on
\* with the wrapped sum, as the build profile has it.
cleanup_stale_debug_texts ==
    /\ Runs("cleanup_stale_debug_texts")
    /\ FrameAllowed(texts.frame)
    /\ \E overflow_checks \in
          IF \E k \in DOMAIN texts.entries : Overflows(texts.entries[k])
          THEN BOOLEAN ELSE {FALSE} :
          IF overflow_checks
          THEN /\ panicked' = TRUE
               /\ texts' = [texts EXCEPT !.frame = wrapping_add(@)]
               /\ UNCHANGED commands
          ELSE LET w == cleanup([texts |-> texts, commands |-> commands,
                                 next_entity |-> next_entity])
               IN  /\ texts' = w.texts
                   /\ commands' = w.commands
                   /\ UNCHANGED panicked
    /\ UNCHANGED <<level, level_changed, world, next_entity, DEBUG_QUEUE,
                   producers, calls, appended, applied, write_age>>
    /\ UNCHANGED history_vars

\* toggle_debug_level, reading one ToggleDebugLevel message.  The system is
\* commented out of the schedule in this build (line 47); it is the only
\* writer of DebugLevel the source has.
toggle_debug_level ==
    /\ ~panicked
    /\ "toggle_debug_level" \notin ran
    /\ ran' = ran \cup {"toggle_debug_level"}
    /\ level' = NextLevel(level)
    /\ level_changed' = TRUE
    /\ UNCHANGED <<texts, world, next_entity, commands, DEBUG_QUEUE, producers,
                   panicked, calls, appended, applied, write_age>>
    /\ UNCHANGED history_vars

apply_debug_visibility ==
    /\ Runs("apply_debug_visibility")
    /\ IF ~level_changed
       THEN UNCHANGED world
       ELSE world' = [e \in DOMAIN world |->
                        [world[e] EXCEPT !.visibility =
                            TargetVisibility(level, world[e])]]
    /\ level_changed' = FALSE
    /\ UNCHANGED <<texts, level, next_entity, commands, DEBUG_QUEUE, producers,
                   panicked, calls, appended, applied, write_age>>
    /\ UNCHANGED history_vars

\* The Update schedule ends: every system has run, the deferred commands are
\* applied in the order they were issued, and the next frame begins.
end_of_frame ==
    /\ ~panicked
    /\ Systems \subseteq ran
    /\ world' = ApplyCommands(world, commands)
    /\ commands' = <<>>
    /\ ran' = {}
    /\ write_age' = [k \in Keys |-> IF write_age[k] < 3 THEN write_age[k] + 1
                                    ELSE 3]
    /\ UNCHANGED <<texts, level, level_changed, next_entity, DEBUG_QUEUE,
                   producers, panicked, calls, appended, applied>>
    /\ UNCHANGED history_vars

(***************************************************************************)
(* The systems of the frame-time displays.  They share no data with the    *)
(* systems of the keyed texts but the level, which they read, so their      *)
(* part of the frame is explored on its own.                                *)
(***************************************************************************)
UpdateSystems == {"frame_time_diagnostics", "update_frame_time_history",
                  "update_fps_display",
                  "update_frametime_consistency_display"}

PostUpdateSystems == {"draw_axes_gizmo", "draw_frametime_barchart"}

\* FrameTimeDiagnosticsPlugin's system (added at line 37): it adds the
\* frame's measurement, from which on the smoothed value is present, or adds
\* none (the frame's delta is zero, as in the first frame).
frame_time_diagnostics ==
    /\ Runs("frame_time_diagnostics")
    /\ \E measured \in {<<x>> : x \in Samples} \cup {diagnostics} :
          diagnostics' = measured
    /\ UNCHANGED <<history, recorded, gizmos, shadow, level, world>>
    /\ UNCHANGED writer_vars

\* update_frame_time_history; the second run's history takes the same value.
update_frame_time_history ==
    /\ Runs("update_frame_time_history")
    /\ diagnostics # <<>> => Len(recorded) < MaxSamples
    /\ history' = update_history(history, diagnostics)
    /\ recorded' = recorded \o diagnostics
    /\ shadow' = [shadow EXCEPT !.history = update_history(@, diagnostics)]
    /\ UNCHANGED <<diagnostics, gizmos, level, world>>
    /\ UNCHANGED writer_vars

update_fps_display ==
    /\ Runs("update_fps_display")
    /\ world' = [world EXCEPT ![1].text = fps_label(level, history, @)]
    /\ UNCHANGED <<level>>
    /\ UNCHANGED history_vars
    /\ UNCHANGED writer_vars

\* update_frametime_consistency_display, ordered after
\* update_frame_time_history (line 42).
update_frametime_consistency_display ==
    /\ Runs("update_frametime_consistency_display")
    /\ "update_frame_time_history" \in ran
    /\ world' = IF level # "Full" THEN world
                ELSE [world EXCEPT ![2].text = frametime_labels(history).avg,
                                   ![3].text = frametime_labels(history).max]
    /\ UNCHANGED <<level>>
    /\ UNCHANGED history_vars
    /\ UNCHANGED writer_vars

\* draw_axes_gizmo, in PostUpdate: three lines, if the level lets it and
\* the camera projects the anchor point.
draw_axes_gizmo ==
    /\ Runs("draw_axes_gizmo")
    /\ UpdateSystems \subseteq ran
    /\ \E projected \in BOOLEAN :
          gizmos' = [gizmos EXCEPT !.axes =
                        IF DrawsAt(level) /\ projected THEN 3 ELSE 0]
    /\ UNCHANGED <<history, recorded, diagnostics, shadow, level, world>>
    /\ UNCHANGED writer_vars

\* draw_frametime_barchart, in PostUpdate: a line per retained sample.
draw_frametime_barchart ==
    /\ Runs("draw_frametime_barchart")
    /\ UpdateSystems \subseteq ran
    /\ \E projected \in BOOLEAN :
          gizmos' = [gizmos EXCEPT !.bars =
                        IF DrawsAt(level) /\ projected
                        THEN Len(history.frame_times_ms) ELSE 0]
    /\ UNCHANGED <<history, recorded, diagnostics, shadow, level, world>>
    /\ UNCHANGED writer_vars

\* The frame ends: Update and PostUpdate have run, the frame's gizmo lines
\* are rendered and cleared.
end_of_history_frame ==
    /\ ~panicked
    /\ UpdateSystems \cup PostUpdateSystems \subseteq ran
    /\ ran' = {}
    /\ gizmos' = [axes |-> 0, bars |-> 0]
    /\ UNCHANGED <<history, recorded, diagnostics, shadow, level, world>>
    /\ UNCHANGED writer_vars

\* The level changes of the two runs.  The history is not a function of the
\* level and the draw systems run in PostUpdate, after every system of
\* Update, so where within Update a change falls shows in the texts of the
\* displays alone: the changes are taken at the start of a frame.
toggle_at_frame_start ==
    /\ ran = {}
    /\ toggle_debug_level

toggle_shadow_level ==
    /\ ~panicked
    /\ ran = {}
    /\ UNCHANGED ran
    /\ shadow' = [shadow EXCEPT !.level = NextLevel(@)]
    /\ UNCHANGED <<history, recorded, diagnostics, gizmos, level, world>>
    /\ UNCHANGED writer_vars

Next ==
    \/ \E p \in Producers : enqueue_lock(p)
    \/ \E p \in Producers : enqueue_push(p)
    \/ \E p \in Producers : enqueue_panic(p)
    \/ drain_debug_queue
    \/ cleanup_stale_debug_texts
    \/ apply_debug_visibility
    \/ end_of_frame

\* The program as built: toggle_debug_level is not scheduled.
Spec == Init /\ [][Next]_vars

\* The program with toggle_debug_level scheduled in Update as line 47 has it.
NextToggled == Next \/ toggle_debug_level

SpecToggled == Init /\ [][NextToggled]_vars

\* The overlay from a frame counter about to wrap.
SpecWrap == InitWrap /\ [][Next]_vars

\* The frame-time displays as built (the level stays Full).
NextHistory ==
    \/ frame_time_diagnostics
    \/ update_frame_time_history
    \/ update_fps_display
    \/ update_frametime_consistency_display
    \/ draw_axes_gizmo
    \/ draw_frametime_barchart
    \/ end_of_history_frame

SpecHistory == Init /\ [][NextHistory]_vars

\* Two runs on the same samples, each with level changes of its own.
NextTwoRuns == NextHistory \/ toggle_at_frame_start \/ toggle_shadow_level

SpecTwoRuns == Init /\ [][NextTwoRuns]_vars


(***************************************************************************)
(* Vocabulary of the properties.                                           *)
(***************************************************************************)
DrainName == "drain_debug_queue"
CleanupName == "cleanup_stale_debug_texts"
ApplyName == "apply_debug_visibility"

\* The step is a run of the named system that did not panic.
StepOf(system) == system \notin ran /\ system \in ran' /\ ~panicked'

Entries == texts.entries

\* A despawn of entity e is among the commands cs.
DespawnIn(cs, e) == \E i \in 1..Len(cs) : cs[i].op = "despawn" /\ cs[i].entity = e

\* Entity e is spawned by the commands cs.
SpawnIn(cs, e) == \E i \in 1..Len(cs) : cs[i].op = "spawn" /\ cs[i].entity = e

\* The keyed visual entities of key k that exist or are about to, and for
\* which no despawn has been issued.
LiveKeyed(k) ==
    {e \in DOMAIN world : world[e].label = k /\ ~DespawnIn(commands, e)}
    \cup {commands[i].entity : i \in {j \in 1..Len(commands) :
              commands[j].op = "spawn" /\ commands[j].label = k}}

\* The requests for key k among reqs, in order.
ForKey(reqs, k) == SelectSeq(reqs, LAMBDA r : r.key = k)

(***************************************************************************)
(* C1.  An ephemeral entry written in some frame and written in neither of  *)
(* the next two frames is gone by the end of the second unrefreshed frame's *)
(* cleanup_stale_debug_texts: it has left the registry, and a despawn has   *)
(* been issued for its visual entity (no keyed entity of the key is left    *)
(* without one).  write_age[k] = 2 is the second frame after the last write *)
(* of k, and 3 any later one.                                               *)
(***************************************************************************)
C1_StaleEphemeralEvicted ==
    \A k \in Keys :
        (write_age[k] >= 3 \/ (write_age[k] = 2 /\ CleanupName \in ran))
        => /\ k \in DOMAIN Entries => Entries[k].persistent
           /\ k \notin DOMAIN Entries => LiveKeyed(k) = {}

\* The second unrefreshed frame's cleanup has just evicted "hp", which the
\* first unrefreshed frame's cleanup had kept.
C1_Witness ==
    /\ write_age["hp"] = 2
    /\ CleanupName \in ran
    /\ "hp" \in DOMAIN texts.line_lookup
    /\ "hp" \notin DOMAIN Entries
    /\ \E e \in DOMAIN world : world[e].label = "hp" /\ DespawnIn(commands, e)

(***************************************************************************)
(* C2.  A persistent entry is never removed from the registry and never     *)
(* despawned, however many frames pass without a write to its key: every    *)
(* step keeps the entry, its entity, and issues no despawn for it.          *)
(***************************************************************************)
C2_PersistentNeverEvicted ==
    [][\A k \in DOMAIN Entries :
          Entries[k].persistent
          => /\ k \in DOMAIN texts'.entries
             /\ texts'.entries[k].entity = Entries[k].entity
             /\ ~DespawnIn(commands', Entries[k].entity)
             /\ \/ Entries[k].entity \in DOMAIN world'
                \/ SpawnIn(commands', Entries[k].entity)]_vars

\* A persistent entry that has gone unrefreshed for three frames or more and
\* is still registered and on screen.
C2_Witness ==
    /\ "hp" \in DOMAIN Entries
    /\ Entries["hp"].persistent
    /\ write_age["hp"] = 3
    /\ Entries["hp"].last_frame + 1 < texts.frame
    /\ Entries["hp"].entity \in DOMAIN world

(***************************************************************************)
(* C3.  A single missed frame is tolerated: an ephemeral entry written in   *)
(* frame k, not in frame k+1 and again in frame k+2 keeps its registry      *)
(* entry and its entity throughout.  So no step of frame k or k+1           *)
(* (write_age <= 1) removes or replaces the entry, and the write of frame   *)
(* k+2 (write_age = 2 at the drain) finds it still registered.              *)
(***************************************************************************)
C3_SingleMissTolerated ==
    [][/\ \A k \in DOMAIN Entries :
             write_age[k] <= 1
             => /\ k \in DOMAIN texts'.entries
                /\ texts'.entries[k].entity = Entries[k].entity
       /\ StepOf(DrainName)
          => \A k \in KeysOf(DEBUG_QUEUE.data) :
                write_age[k] = 2 => k \in DOMAIN Entries]_vars

(***************************************************************************)
(* C4.  Two or more writes of one key in one frame (one drain) leave one    *)
(* registry entry and one slot for the key, spawn one entity if the key had *)
(* no entry and none if it had, show the last message once the frame's      *)
(* commands are applied, and set last_frame to the current frame counter.   *)
(***************************************************************************)
C4_SameKeyTwiceOneEntry ==
    [][StepOf(DrainName)
       => \A k \in Keys :
             LET reqs == ForKey(DEBUG_QUEUE.data, k)
                 issued == SubSeq(commands', Len(commands) + 1, Len(commands'))
                 spawned == {i \in 1..Len(issued) :
                               issued[i].op = "spawn" /\ issued[i].label = k}
             IN  Len(reqs) >= 2
                 => /\ k \in DOMAIN texts'.entries
                    /\ texts'.entries[k].last_frame = texts.frame
                    /\ k \in DOMAIN texts'.line_lookup
                    /\ texts'.entries[k].line = texts'.line_lookup[k]
                    /\ k \in DOMAIN texts.line_lookup
                       => texts'.line_lookup[k] = texts.line_lookup[k]
                    /\ texts'.next_line - texts.next_line =
                          Cardinality(DOMAIN texts'.line_lookup
                                      \ DOMAIN texts.line_lookup)
                    /\ Cardinality(spawned) =
                          IF k \in DOMAIN Entries THEN 0 ELSE 1
                    /\ Cardinality(LiveKeyed(k)') = 1
                    /\ LET after == ApplyCommands(world, commands')
                           e == texts'.entries[k].entity
                       IN  /\ e \in DOMAIN after
                           /\ after[e].text = reqs[Len(reqs)].message]_vars

\* This frame's drain wrote "hp" twice with different messages: the first
\* write spawned the entity and the second replaced its text.
C4_Witness ==
    \E i, j \in 1..Len(commands) :
        /\ i < j
        /\ commands[i].op = "spawn" /\ commands[i].label = "hp"
        /\ commands[j].op = "insert" /\ commands[j].entity = commands[i].entity
        /\ commands[j].text # commands[i].text

(***************************************************************************)
(* C5.  The slot mapping is injective: two distinct keys never have the     *)
(* same slot index, and every slot handed out is below next_line.           *)
(***************************************************************************)
C5_SlotsInjective ==
    /\ \A k1, k2 \in DOMAIN texts.line_lookup :
          k1 # k2 => texts.line_lookup[k1] # texts.line_lookup[k2]
    /\ \A k \in DOMAIN texts.line_lookup : texts.line_lookup[k] < texts.next_line

\* "hp" was evicted in an earlier frame and "pos" is first written now.
C5_Witness ==
    /\ "hp" \in DOMAIN texts.line_lookup
    /\ "hp" \notin DOMAIN Entries
    /\ "pos" \in DOMAIN Entries
    /\ SpawnIn(commands, Entries["pos"].entity)
    /\ \A i \in 1..Len(commands) : commands[i].op # "despawn"
    /\ texts.line_lookup["pos"] > texts.line_lookup["hp"]


(***************************************************************************)
(* C6.  For every interleaving of the producers' enqueue_request calls with *)
(* the frame loop, each request pushed onto the queue is applied by         *)
(* drain_debug_queue exactly once and in push order: the requests applied   *)
(* so far followed by those still queued are always the requests pushed,    *)
(* and a drain leaves the queue empty with every pushed request applied to  *)
(* the registry (its key has an entry touched this frame, showing the last  *)
(* message queued for it).                                                  *)
(***************************************************************************)
C6_DrainAppliesOnceInOrder ==
    /\ [](applied \o DEBUG_QUEUE.data = appended)
    /\ [][StepOf(DrainName)
          => /\ DEBUG_QUEUE'.data = <<>>
             /\ applied' = appended
             /\ \A k \in KeysOf(DEBUG_QUEUE.data) :
                   LET reqs == ForKey(DEBUG_QUEUE.data, k)
                       after == ApplyCommands(world, commands')
                   IN  /\ k \in DOMAIN texts'.entries
                       /\ texts'.entries[k].last_frame = texts.frame
                       /\ texts'.entries[k].entity \in DOMAIN after
                       /\ after[texts'.entries[k].entity].text =
                             reqs[Len(reqs)].message]_vars

\* A drain has applied two requests this frame, and a producer holds the
\* mutex for a request that is to wait for the next drain.
C6_Witness ==
    /\ DrainName \in ran
    /\ Len(commands) >= 2
    /\ Len(applied) >= 2
    /\ \E p \in Producers : producers[p].pc = "locked"

(***************************************************************************)
(* C7.  When apply_debug_visibility runs after a change of DebugLevel,      *)
(* every overlay text entity then in the world has the visibility the level *)
(* dictates: none visible at Hidden, the FPS text alone at FpsOnly, all of  *)
(* them at Full.                                                            *)
(***************************************************************************)
DictatedVisibility(lvl, kind) ==
    IF lvl = "Full" \/ (lvl = "FpsOnly" /\ kind = "FpsText")
    THEN "Inherited" ELSE "Hidden"

C7_VisibilityFollowsLevel ==
    [][StepOf(ApplyName) /\ level_changed
       => \A e \in DOMAIN world' :
             world'[e].visibility = DictatedVisibility(level, world'[e].kind)]_vars

(***************************************************************************)
(* C9.  A failure to acquire the queue's mutex (the mutex is poisoned) is   *)
(* not fatal: no step taken with the mutex poisoned panics the host, a      *)
(* drain then leaves registry, commands and queue as they are, and an       *)
(* enqueue_request call then leaves registry and queue as they are.         *)
(***************************************************************************)
C9_LockFailureNonFatal ==
    [][DEBUG_QUEUE.poisoned
       => /\ ~panicked'
          /\ (DrainName \notin ran /\ DrainName \in ran')
             => /\ texts' = texts
                /\ commands' = commands
                /\ DEBUG_QUEUE' = DEBUG_QUEUE
          /\ calls' # calls
             => /\ texts' = texts
                /\ DEBUG_QUEUE'.data = DEBUG_QUEUE.data
                /\ producers' = producers]_vars

(***************************************************************************)
(* C10.  Persistence is sticky: the persistence flag of a registered entry  *)
(* never goes from true to false, whatever is written to its key.           *)
(***************************************************************************)
C10_PersistenceSticky ==
    [][\A k \in DOMAIN Entries \cap DOMAIN texts'.entries :
          Entries[k].persistent => texts'.entries[k].persistent]_vars

\* "hp" was written as persistent, later written with persistent = false,
\* and its entry is persistent.
C10_Witness ==
    /\ "hp" \in DOMAIN Entries
    /\ Entries["hp"].persistent
    /\ \E i, j \in 1..Len(applied) :
          /\ i < j
          /\ applied[i].key = "hp" /\ applied[i].persistent
          /\ applied[j].key = "hp" /\ ~applied[j].persistent


(***************************************************************************)
(* C8.  After every update_frame_time_history step the window holds at most *)
(* FRAME_DELTA_WINDOW samples, they are the most recent samples in arrival  *)
(* order, and the running sum equals the sum of the retained samples in     *)
(* seconds.                                                                 *)
(***************************************************************************)
RECURSIVE Sum(_)
Sum(seq) == IF seq = <<>> THEN 0 ELSE Head(seq) + Sum(Tail(seq))

\* The last n elements of seq (all of it when it is shorter).
LastN(seq, n) ==
    IF Len(seq) <= n THEN seq ELSE SubSeq(seq, Len(seq) - n + 1, Len(seq))

\* The retained samples' seconds added up in f64, oldest first.
RECURSIVE FloatSumSeconds(_)
FloatSumSeconds(seq) ==
    IF seq = <<>> THEN 0
    ELSE FAdd(FloatSumSeconds(SubSeq(seq, 1, Len(seq) - 1)),
              ToSeconds(seq[Len(seq)]))

WindowIsRecent ==
    /\ Len(history.frame_times_ms) <= FRAME_DELTA_WINDOW
    /\ history.frame_times_ms = LastN(recorded, FRAME_DELTA_WINDOW)

\* The claim as stated, the sum read either way: equal to the exact sum of
\* the retained samples in seconds (sum_seconds * 1000 = their sum in ms), or
\* equal to those samples' seconds added up afresh in f64.
C8_SumEqualsWindow ==
    /\ WindowIsRecent
    /\ \/ 1000 * history.sum_seconds = Sum(history.frame_times_ms)
       \/ history.sum_seconds = FloatSumSeconds(history.frame_times_ms)

\* The spacing of the representable values at magnitude n.
Ulp(n) == 2 ^ RoundExp(n, 1, 0)

MaxSample == CHOOSE x \in Samples : \A y \in Samples : y <= x

\* The largest of the samples times (a non-empty sequence).
MaxSampleOf(times) ==
    CHOOSE x \in {times[i] : i \in 1..Len(times)} :
       \A i \in 1..Len(times) : times[i] <= x

\* Twice the rounding error the sum can have gathered after k samples: half
\* an ulp for the division of each retained sample, and half an ulp of the
\* largest running sum for each of the (at most two) additions and
\* subtractions a sample causes.
TwiceTolerance(k) ==
    FRAME_DELTA_WINDOW * Ulp(ToSeconds(MaxSample))
    + 2 * k * Ulp((FRAME_DELTA_WINDOW + 2) * ToSeconds(MaxSample))

\* Amended: the window is as claimed, and the running sum equals the sum of
\* the retained samples in seconds up to the rounding error gathered so far.
C8_SumWithinTolerance ==
    /\ WindowIsRecent
    /\ 2 * Abs(1000 * history.sum_seconds - Sum(history.frame_times_ms))
          <= 1000 * TwiceTolerance(Len(recorded))

\* More samples than the window holds were recorded, the oldest were evicted,
\* and the running sum has drifted from the retained samples' f64 sum.
C8_Witness ==
    /\ Len(recorded) > FRAME_DELTA_WINDOW
    /\ Len(history.frame_times_ms) = FRAME_DELTA_WINDOW
    /\ history.sum_seconds # FloatSumSeconds(history.frame_times_ms)


(***************************************************************************)
(* C13.  A key written every frame is never evicted, whatever the order of  *)
(* the writer and cleanup_stale_debug_texts within each frame, also when    *)
(* the order differs from frame to frame: an entry written this frame       *)
(* (write_age = 0) survives every step with its entity, and the write of a  *)
(* key written in the previous frame (write_age = 1 at the drain) finds its *)
(* entry still registered.                                                  *)
(***************************************************************************)
C13_WrittenEveryFrameSurvives ==
    [][/\ \A k \in DOMAIN Entries :
             write_age[k] = 0
             => /\ k \in DOMAIN texts'.entries
                /\ texts'.entries[k].entity = Entries[k].entity
       /\ StepOf(DrainName)
          => \A k \in KeysOf(DEBUG_QUEUE.data) :
                write_age[k] = 1 => k \in DOMAIN Entries]_vars

(***************************************************************************)
(* C15.  A key written again after its eviction gets the slot it had: slots *)
(* are never changed or given up, a slot is allocated (as the next unused   *)
(* index) only for a key never written before, and next_line is the number  *)
(* of distinct keys ever written and never decreases.                       *)
(***************************************************************************)
C15_SlotsStable ==
    /\ [](/\ texts.next_line = Cardinality(DOMAIN texts.line_lookup)
          /\ DOMAIN texts.line_lookup = KeysOf(applied)
          /\ {texts.line_lookup[k] : k \in DOMAIN texts.line_lookup}
                = 0..(texts.next_line - 1)
          /\ \A k \in DOMAIN Entries : Entries[k].line = texts.line_lookup[k])
    /\ [][/\ texts'.next_line >= texts.next_line
          /\ \A k \in DOMAIN texts.line_lookup :
                /\ k \in DOMAIN texts'.line_lookup
                /\ texts'.line_lookup[k] = texts.line_lookup[k]]_vars

\* "hp", the only key ever written, was evicted and written again: its entry
\* has a second entity and the slot of the first.
C15_Witness ==
    /\ "hp" \in DOMAIN Entries
    /\ Entries["hp"].entity >= 5
    /\ Entries["hp"].line = 0
    /\ DOMAIN texts.line_lookup = {"hp"}
    /\ texts.next_line = 1

(***************************************************************************)
(* C16.  A request pushed after a frame's drain has finished is not applied *)
(* in that frame: only a drain applies requests, every other step leaves    *)
(* the queued requests queued (in place, new ones behind them), and a drain *)
(* applies all that is queued and leaves the queue empty, so a request is   *)
(* applied by the first drain that starts after its push.                   *)
(***************************************************************************)
C16_LateRequestsWaitForNextDrain ==
    [][/\ StepOf(DrainName)
          => /\ applied' = applied \o DEBUG_QUEUE.data
             /\ DEBUG_QUEUE'.data = <<>>
       /\ ~(DrainName \notin ran /\ DrainName \in ran')
          => /\ applied' = applied
             /\ Len(DEBUG_QUEUE'.data) >= Len(DEBUG_QUEUE.data)
             /\ SubSeq(DEBUG_QUEUE'.data, 1, Len(DEBUG_QUEUE.data))
                   = DEBUG_QUEUE.data]_vars

\* This frame's drain applied a request, and a request pushed after it waits
\* in the queue.
C16_Witness ==
    /\ DrainName \in ran
    /\ Len(commands) >= 1
    /\ Len(applied) >= 1
    /\ Len(DEBUG_QUEUE.data) >= 1
    /\ DEBUG_QUEUE.data[1].id > applied[Len(applied)].id

(***************************************************************************)
(* C18.  At the end of every frame every keyed debug-text entity is visible *)
(* if and only if DebugLevel is Full, entities spawned by a write of the    *)
(* frame in which the level changed included.  (Stated for the frame ends   *)
(* at which apply_debug_visibility has seen the current level.)             *)
(***************************************************************************)
C18_KeyedVisibleIffFull ==
    (ran = {} /\ commands = <<>> /\ ~level_changed)
    => \A e \in DOMAIN world :
          world[e].kind = "DebugLabel"
          => (world[e].visibility = "Inherited" <=> level = "Full")

(***************************************************************************)
(* C19.  The registry and the live keyed entities correspond one to one:    *)
(* an entry's entity is spawned (or its spawn is queued) with no despawn    *)
(* issued, no two entries share an entity, a keyed entity without a despawn *)
(* issued belongs to the entry of its key, and no text update is queued     *)
(* against an entity that is despawned or has a despawn queued.             *)
(***************************************************************************)
C19_RegistryMatchesEntities ==
    /\ \A k \in Keys :
          LiveKeyed(k) = IF k \in DOMAIN Entries THEN {Entries[k].entity}
                         ELSE {}
    /\ \A k1, k2 \in DOMAIN Entries :
          k1 # k2 => Entries[k1].entity # Entries[k2].entity
    /\ \A i \in 1..Len(commands) :
          commands[i].op = "insert"
          => /\ ~DespawnIn(commands, commands[i].entity)
             /\ \/ commands[i].entity \in DOMAIN world
                \/ \E j \in 1..(i - 1) :
                      /\ commands[j].op = "spawn"
                      /\ commands[j].entity = commands[i].entity

\* "hp" was evicted by this frame's cleanup and written again by its drain:
\* the old entity awaits its despawn and the entry has a new one.
C19_Witness ==
    /\ "hp" \in DOMAIN Entries
    /\ SpawnIn(commands, Entries["hp"].entity)
    /\ \E e \in DOMAIN world : world[e].label = "hp" /\ DespawnIn(commands, e)


\* How many cleanups the counter is past the entry's last write, modulo 2^64.
Behind(entry, frame) == (frame - entry.last_frame + FrameModulus) % FrameModulus

(***************************************************************************)
(* C20.  The frame counter wraps modulo 2^64 and the staleness test stays   *)
(* correct across the wrap: a cleanup does not abort on last_frame + 1,     *)
(* it advances the counter by one modulo 2^64, it keeps every ephemeral     *)
(* entry written at the counter's value or the one before, and it evicts    *)
(* every ephemeral entry written earlier.                                   *)
(***************************************************************************)
C20_StalenessCorrectAcrossWrap ==
    [][(CleanupName \notin ran /\ CleanupName \in ran')
       => /\ ~panicked'
          /\ texts'.frame = (texts.frame + 1) % FrameModulus
          /\ \A k \in DOMAIN Entries :
                ~Entries[k].persistent
                => (k \in DOMAIN texts'.entries
                    <=> Behind(Entries[k], texts'.frame) <= 1)]_vars


(***************************************************************************)
(* Vocabulary of the frame-time display properties.                        *)
(***************************************************************************)
HistoryName == "update_frame_time_history"
FpsName == "update_fps_display"
ConsistencyName == "update_frametime_consistency_display"

(***************************************************************************)
(* C17.  When the diagnostics feed has no smoothed frame time,              *)
(* update_frame_time_history leaves the window, its length and the running  *)
(* sum as they were.                                                        *)
(***************************************************************************)
C17_MissingSampleSkipsUpdate ==
    [][(StepOf(HistoryName) /\ diagnostics = <<>>)
       => /\ history'.frame_times_ms = history.frame_times_ms
          /\ Len(history'.frame_times_ms) = Len(history.frame_times_ms)
          /\ history'.sum_seconds = history.sum_seconds]_vars

\* update_frame_time_history has run in a frame in which the feed had no
\* value: the frame is under way and the history is still empty.
C17_Witness ==
    /\ HistoryName \in ran
    /\ diagnostics = <<>>
    /\ history.frame_times_ms = <<>>

\* The seconds of the newest n samples added up in f64, newest first.
RECURSIVE AccNewest(_, _)
AccNewest(times, n) ==
    IF n = 0 THEN 0
    ELSE FAdd(AccNewest(times, n - 1), ToSeconds(times[Len(times) - n + 1]))

\* The samples the walk consumes: up to the first with which the accumulated
\* time is at least the budget, all of them when there is none.
Consumed(times) ==
    LET reaching == {n \in 1..Len(times) :
                        AccNewest(times, n) >= FPS_AVG_WINDOW_SECONDS}
    IN  IF reaching = {} THEN Len(times)
        ELSE CHOOSE n \in reaching : \A m \in reaching : n <= m

\* samples-consumed / elapsed-time, as the FPS line prints it.
RateLabel(times) ==
    FpsLabel(FormatFixed(Rate(Consumed(times),
                              AccNewest(times, Consumed(times))),
                         FpsUnit, 0))

(***************************************************************************)
(* C14 as stated.  update_fps_display writes a rate only when the time      *)
(* accumulated by the walk back from the newest sample is at least the      *)
(* budget of 250 ms, and then the rate is samples-consumed / elapsed-time;  *)
(* until then the FPS line is left as it is.                                *)
(***************************************************************************)
C14_RateOnlyAtBudget ==
    [][StepOf(FpsName)
       => world'[1].text =
             IF /\ level # "Hidden"
                /\ AccNewest(history.frame_times_ms,
                             Consumed(history.frame_times_ms))
                      >= FPS_AVG_WINDOW_SECONDS
             THEN RateLabel(history.frame_times_ms)
             ELSE world[1].text]_vars

\* C14 amended: update_fps_display writes the rate whenever the window holds
\* a sample (the accumulated time is positive) and the level is not Hidden,
\* budget reached or not; the rate is samples-consumed / elapsed-time, the
\* walk ending with the sample that reaches the budget or with the oldest.
C14_RateWheneverSampled ==
    [][StepOf(FpsName)
       => world'[1].text =
             IF level # "Hidden" /\ history.frame_times_ms # <<>>
             THEN RateLabel(history.frame_times_ms)
             ELSE world[1].text]_vars

\* The FPS line shows a rate although all the samples ever recorded add up
\* to less than the budget.
C14_Witness ==
    /\ world[1].text # FpsLabel(Placeholder)
    /\ recorded # <<>>
    /\ Sum(recorded) < Float(250)

(***************************************************************************)
(* C12 as stated.  With a non-empty window the stats labels show the sum of *)
(* the retained samples divided by their number and the largest retained    *)
(* sample (to two decimals); with an empty window both show the             *)
(* placeholder.                                                             *)
(***************************************************************************)
C12_LabelsShowMeanAndMax ==
    [][(StepOf(ConsistencyName) /\ level = "Full")
       => IF history.frame_times_ms = <<>>
          THEN /\ world'[2].text = ConsistencyLabel("avg", Placeholder)
               /\ world'[3].text = ConsistencyLabel("max", Placeholder)
          ELSE /\ world'[2].text =
                     ConsistencyLabel("avg",
                        FormatFixed(Sum(history.frame_times_ms),
                                    Len(history.frame_times_ms)
                                       * (2 ^ FloatScale), 2))
               /\ world'[3].text =
                     ConsistencyLabel("max",
                        FormatFixed(MaxSampleOf(history.frame_times_ms),
                                    2 ^ FloatScale, 2))]_vars

\* C12 amended: the average shown is the running sum times 1000 divided by
\* the number of retained samples, to two decimals, a value that equals the
\* retained samples' mean up to the rounding error of the running sum and of
\* the two operations; the maximum and the placeholders are as stated.
C12_LabelsShowRunningMeanAndMax ==
    [][(StepOf(ConsistencyName) /\ level = "Full")
       => IF history.frame_times_ms = <<>>
          THEN /\ world'[2].text = ConsistencyLabel("avg", Placeholder)
               /\ world'[3].text = ConsistencyLabel("max", Placeholder)
          ELSE /\ world'[2].text =
                     ConsistencyLabel("avg",
                        FormatFixed(Average(history), 2 ^ FloatScale, 2))
               /\ 2 * Abs(Average(history) * Len(history.frame_times_ms)
                          - Sum(history.frame_times_ms))
                     <= Len(history.frame_times_ms) * Ulp(Average(history))
                        + Ulp(1000 * history.sum_seconds)
                        + 1000 * TwiceTolerance(Len(recorded))
               /\ world'[3].text =
                     ConsistencyLabel("max",
                        FormatFixed(MaxSampleOf(history.frame_times_ms),
                                    2 ^ FloatScale, 2))]_vars

\* The labels show numbers for a full window of samples that are not all
\* the same.
C12_Witness ==
    /\ ConsistencyName \in ran
    /\ Len(history.frame_times_ms) = FRAME_DELTA_WINDOW
    /\ history.frame_times_ms[1] # history.frame_times_ms[2]
    /\ world[2].text =
          ConsistencyLabel("avg",
                           FormatFixed(Average(history), 2 ^ FloatScale, 2))
    /\ world[2].text # ConsistencyLabel("avg", Placeholder)

====
